---- MODULE Spec2Model ----
(***************************************************************************)
(* A model of TinyMathAPI: the value types Vector<T,N> (src/Vector.hpp)    *)
(* and Matrix<T,Rows,Cols> (src/Matrix.hpp).                               *)
(*                                                                         *)
(* A vector is a function 0..N-1 -> scalar, a matrix a function            *)
(* 0..Rows-1 -> (0..Cols-1 -> scalar): std::array storage, 0-based.        *)
(* The objects live in mem (x, y: vectors; A, B: matrices) so that an      *)
(* operand passed by reference can be the receiver itself, and a scalar    *)
(* passed as const T& can be an element of the receiver.                   *)
(***************************************************************************)
EXTENDS Integers, Sequences, FiniteSets, TLC

VARIABLES
    T,      \* the scalar type the templates are instantiated with
    N,      \* Vector<T,N>: the length of x and y
    Rows,   \* Matrix<T,Rows,Cols>
    Cols,
    mem,    \* the objects: mem.x, mem.y (vectors), mem.A, mem.B (matrices)
    pc,     \* "ready": between calls; "returned": a call has just returned
    op,     \* the operation that returned last
    pre,    \* mem as it was when that operation was called
    arg,    \* the operands of that call
    ret,    \* the value it returned
    faults, \* what went wrong in that call: "out_of_range" (an element access
            \* outside an object's storage), "division_by_zero", "ill_formed"
            \* (a call the compiler rejects)
    shadow  \* x's initial value taken through the non-mutating operators

vars == <<T, N, Rows, Cols, mem, pc, op, pre, arg, ret, faults, shadow>>

\* ------------------------------------------------------------- bounds

MaxN == 3
MaxDim == 2
MaxWeight == 2
FloatBits == 1

\* ------------------------------------------------------- scalar type T

Abs(v) == IF v < 0 THEN -v ELSE v

Sign(v) == IF v < 0 THEN -1 ELSE 1

RECURSIVE Pow2(_)
Pow2(e) == IF e = 0 THEN 1 ELSE 2 * Pow2(e - 1)

\* The exponent e at which |v| needs no more than FloatBits significant bits.
RECURSIVE FloatExp(_, _)
FloatExp(v, e) == IF v < Pow2(FloatBits + e) THEN e ELSE FloatExp(v, e + 1)

\* Round to nearest, ties to even, onto the values m * 2^e with m < 2^FloatBits:
\* the result of one floating-point operation whose exact result is v.
RoundToFloat(v) ==
    LET e == FloatExp(Abs(v), 0)
        q == Abs(v) \div Pow2(e)
        r == Abs(v) % Pow2(e)
        up == 2 * r > Pow2(e) \/ (2 * r = Pow2(e) /\ q % 2 = 1)
    IN  Sign(v) * (IF up THEN q + 1 ELSE q) * Pow2(e)

\* The value of type T an exact result v is stored as.
Rnd(v) == IF T = "float" THEN RoundToFloat(v) ELSE v

\* C++ integer division truncates towards zero.  The divisor is not zero
\* wherever the model divides: the callers' precondition, or normalized()'s guard.
Quot(a, b) == IF b = 0 THEN 0 ELSE Sign(a) * Sign(b) * (Abs(a) \div Abs(b))

\* One application of the combinator: std::plus, minus, multiplies, divides.
MinusMutant(a, b) == Rnd(b - a)

Plus(a, b) == Rnd(a + b)

Minus(a, b) == Rnd(a - b)

Multiplies(a, b) == Rnd(a * b)

Divides(a, b) == Quot(a, b)

Op(f, a, b) ==
    CASE f = "plus" -> Plus(a, b)
      [] f = "minus" -> Minus(a, b)
      [] f = "multiplies" -> Multiplies(a, b)
      [] f = "divides" -> Divides(a, b)

Ops == {"plus", "minus", "multiplies", "divides"}

\* static_cast<T>(std::sqrt(v)) for an integer T.
ISqrt(v) == CHOOSE r \in 0..v : r * r <= v /\ (r + 1) * (r + 1) > v

\* A const T& argument: a temporary holding a value, or an element of an object.
Deref(m, s) ==
    CASE s.kind = "val" -> s.val
      [] s.kind = "elem" -> m[s.obj][s.i]
      [] s.kind = "cell" -> m[s.obj][s.i][s.j]

\* ----------------------------------------------------------- Vector<T,N>

Min(a, b) == IF a < b THEN a ELSE b

ZeroVec(n) == [i \in 0..(n - 1) |-> 0]

\* std::copy_n(first, count, data.begin()): one element at a time.
RECURSIVE CopyN(_, _, _, _)
CopyN(values, count, data, i) ==
    IF i >= count THEN data
    ELSE CopyN(values, count, (i :> values[i + 1]) @@ data, i + 1)

CopyCountMutant(n, size) == size

CopyCount(n, size) == Min(n, size)

\* Vector(std::initializer_list<T> values): data{} is zero, then copy_n.
VectorFromList(n, values) == CopyN(values, CopyCount(n, Len(values)), ZeroVec(n), 0)

\* apply(other, op) const: std::transform into a fresh result.
VecApply(a, b, f) == [i \in DOMAIN a |-> Op(f, a[i], b[i])]

\* apply_scalar(scalar, op) const.
VecApplyScalar(a, s, f) == [i \in DOMAIN a |-> Op(f, a[i], s)]

\* apply_self(other, op): std::transform writing back into data, element by
\* element; other may be the receiver.
RECURSIVE VecApplySelf(_, _, _, _, _)
VecApplySelf(m, this, other, f, i) ==
    IF i >= N THEN m
    ELSE VecApplySelf([m EXCEPT ![this][i] = Op(f, m[this][i], m[other][i])],
                      this, other, f, i + 1)

\* apply_scalar_self(scalar, op): the lambda reads scalar through the
\* reference at every element.
RECURSIVE VecApplyScalarSelf(_, _, _, _, _)
VecApplyScalarSelf(m, this, s, f, i) ==
    IF i >= N THEN m
    ELSE VecApplyScalarSelf([m EXCEPT ![this][i] = Op(f, m[this][i], Deref(m, s))],
                            this, s, f, i + 1)

\* dot(other): result = 0; result += data[i] * other.data[i].
RECURSIVE DotLoop(_, _, _, _)
DotLoop(a, b, i, result) ==
    IF i >= N THEN result
    ELSE DotLoop(a, b, i + 1, Plus(result, Multiplies(a[i], b[i])))

dot(a, b) == DotLoop(a, b, 0, 0)

magnitude(a) == ISqrt(dot(a, a))

NormGuardMutant(mag) == mag >= 0

NormGuard(mag) == mag > 0

normalized(a) ==
    LET mag == magnitude(a)
    IN  IF NormGuard(mag) THEN VecApplyScalar(a, mag, "divides") ELSE a

\* normalized(a) divides when the guard lets it, by zero if mag is zero.
NormalizedFaults(a) ==
    IF NormGuard(magnitude(a)) /\ magnitude(a) = 0 THEN {"division_by_zero"} ELSE {}

CrossSignMutant(a, b) ==
    VectorFromList(3, << Minus(Multiplies(a[1], b[2]), Multiplies(a[2], b[1])),
                         Minus(Multiplies(a[2], b[0]), Multiplies(a[0], b[2])),
                         Plus(Multiplies(a[0], b[1]), Multiplies(a[1], b[0])) >>)

cross(a, b) ==
    VectorFromList(3, << Minus(Multiplies(a[1], b[2]), Multiplies(a[2], b[1])),
                         Minus(Multiplies(a[2], b[0]), Multiplies(a[0], b[2])),
                         Minus(Multiplies(a[0], b[1]), Multiplies(a[1], b[0])) >>)

\* operator-() const: *this * -1.
Negate(a) == VecApplyScalar(a, -1, "multiplies")

\* operator==: std::array equality, component by component.
VecEquals(a, b) == \A i \in 0..(N - 1) : a[i] = b[i]

\* ------------------------------------------------- Matrix<T,Rows,Cols>

ZeroMat(r, c) == [i \in 0..(r - 1) |-> [j \in 0..(c - 1) |-> 0]]

\* apply(other, op) const: result[i][j] = op(data[i][j], other[i][j]).
MatApply(a, b, f) ==
    [i \in 0..(Rows - 1) |-> [j \in 0..(Cols - 1) |-> Op(f, a[i][j], b[i][j])]]

\* apply_scalar(scalar, op) const.
MatApplyScalar(a, s, f) ==
    [i \in 0..(Rows - 1) |-> [j \in 0..(Cols - 1) |-> Op(f, a[i][j], s)]]

\* apply_self(other, op): the two loops, cell k = i * Cols + j at a time,
\* writing into data; other may be the receiver.
RECURSIVE MatApplySelf(_, _, _, _, _)
MatApplySelf(m, this, other, f, k) ==
    IF k >= Rows * Cols THEN m
    ELSE LET i == k \div Cols
             j == k % Cols
         IN  MatApplySelf([m EXCEPT ![this][i][j] = Op(f, m[this][i][j], m[other][i][j])],
                          this, other, f, k + 1)

\* apply_scalar_self(scalar, op): scalar is read through the reference at
\* every cell.
RECURSIVE MatApplyScalarSelf(_, _, _, _, _)
MatApplyScalarSelf(m, this, s, f, k) ==
    IF k >= Rows * Cols THEN m
    ELSE LET i == k \div Cols
             j == k % Cols
         IN  MatApplyScalarSelf([m EXCEPT ![this][i][j] = Op(f, m[this][i][j], Deref(m, s))],
                                this, s, f, k + 1)

\* multiply(other): result[i][j] = 0; result[i][j] += data[i][k] * other[k][j]
\* for k < Cols.
RECURSIVE MultiplyCell(_, _, _, _, _, _)
MultiplyCell(a, b, i, j, k, result) ==
    IF k >= Cols THEN result
    ELSE MultiplyCell(a, b, i, j, k + 1, Plus(result, Multiplies(a[i][k], b[k][j])))

\* The loops run i < Rows and j < other.Cols into a Matrix<T,Rows,Cols>;
\* static_assert(Cols == Rows).
multiply(a, b) ==
    [i \in 0..(Rows - 1) |-> [j \in 0..(Cols - 1) |-> MultiplyCell(a, b, i, j, 0, 0)]]

\* multiply() names other.Cols, and Cols is a template parameter, not a member
\* of Matrix: a conforming compiler rejects every instantiation of multiply
\* ("has no member named 'Cols'"); one that accepts it reads Cols.
Compilers == {"conforming", "permissive"}

\* What an out-of-range std::array access does is undefined.  "flat": the
\* access lands on the element at that offset of the contiguous storage, if
\* there is one; "skip": it lands outside the object and leaves it as it is.
UBOutcomes == {"flat", "skip"}

\* result[j][i] = v in transpose(), result being a Matrix<T,Rows,Cols>.
TransposeWrite(result, j, i, v, ub) ==
    IF j < Rows /\ i < Cols THEN [result EXCEPT ![j][i] = v]
    ELSE LET k == j * Cols + i
         IN  IF ub = "flat" /\ k < Rows * Cols
             THEN [result EXCEPT ![k \div Cols][k % Cols] = v]
             ELSE result

\* transpose(): Matrix result; for i < Rows, j < Cols: result[j][i] = data[i][j].
RECURSIVE TransposeLoop(_, _, _, _)
TransposeLoop(data, result, k, ub) ==
    IF k >= Rows * Cols THEN result
    ELSE LET i == k \div Cols
             j == k % Cols
         IN  TransposeLoop(data, TransposeWrite(result, j, i, data[i][j], ub), k + 1, ub)

transpose(data, ub) == TransposeLoop(data, ZeroMat(Rows, Cols), 0, ub)

\* The accesses result[j][i] of transpose() that are out of range.
TransposeFaults ==
    IF \E i \in 0..(Rows - 1), j \in 0..(Cols - 1) : ~(j < Rows /\ i < Cols)
    THEN {"out_of_range"} ELSE {}

\* vec[j] in transform(): vec is a Vector<U,N> with N == Rows; garbage is what
\* a read past its end yields.
TransformRead(vec, j, garbage) == IF j < N THEN vec[j] ELSE garbage

\* result[i] = 0; result[i] += data[i][j] * vec[j] for j < Cols.
RECURSIVE TransformRow(_, _, _, _, _, _)
TransformRow(data, vec, i, j, result, garbage) ==
    IF j >= Cols THEN result
    ELSE TransformRow(data, vec, i, j + 1,
                      Plus(result, Multiplies(data[i][j], TransformRead(vec, j, garbage))),
                      garbage)

\* transform(vec): static_assert(Rows == N); a Vector<U,N> result.
transform(data, vec, garbage) ==
    [i \in 0..(Rows - 1) |-> TransformRow(data, vec, i, 0, 0, garbage)]

\* The reads vec[j] of transform() that are out of range.
TransformFaults == IF \E j \in 0..(Cols - 1) : ~(j < N) THEN {"out_of_range"} ELSE {}

\* ------------------------------------------------------------- inputs

\* The sum of the absolute values of a vector's (or a list's) components.
Weight(v) == LET RECURSIVE W(_)
                 W(D) == IF D = {} THEN 0
                         ELSE LET i == CHOOSE k \in D : TRUE
                              IN  Abs(v[i]) + W(D \ {i})
             IN  W(DOMAIN v)

\* The vectors of length n whose components' absolute values sum to k at most.
RECURSIVE Grow(_, _, _)
Grow(S, n, k) ==
    IF k = 0 THEN S
    ELSE Grow(S \cup {[v EXCEPT ![i] = @ + d] : v \in S, i \in 0..(n - 1), d \in {-1, 1}},
              n, k - 1)

VecInputs(n) == Grow({ZeroVec(n)}, n, MaxWeight)

\* The initializer lists: shorter than N, of length N, and one longer.
ListInputs == UNION {{[j \in 1..k |-> v[j - 1]] : v \in VecInputs(k)} : k \in 0..(N + 1)}

ScalarVals == (-MaxWeight)..MaxWeight

ValRef(v) == [kind |-> "val", val |-> v, obj |-> "", i |-> 0, j |-> 0]

ElemRef(o, i) == [kind |-> "elem", val |-> 0, obj |-> o, i |-> i, j |-> 0]

CellRef(o, i, j) == [kind |-> "cell", val |-> 0, obj |-> o, i |-> i, j |-> j]

\* What a caller can pass as const T& scalar to a vector operation.
VecScalarArgs ==
    {ValRef(v) : v \in ScalarVals} \cup {ElemRef(o, i) : o \in {"x", "y"}, i \in 0..(N - 1)}

NoArg == [this |-> "", other |-> "", f |-> "", scalar |-> ValRef(0), list |-> << >>,
          f0 |-> "", other0 |-> ""]

NoMatrix == << >>

\* The sum of the absolute values of a matrix's cells.
MatWeight(a) == LET RECURSIVE W(_)
                    W(i) == IF i >= Rows THEN 0 ELSE Weight(a[i]) + W(i + 1)
                IN  W(0)

\* The r x c matrices of naturals whose cells sum to k at most.
RECURSIVE MatGrow(_, _, _, _)
MatGrow(S, r, c, k) ==
    IF k <= 0 THEN S
    ELSE MatGrow(S \cup {[a EXCEPT ![i][j] = @ + 1] : a \in S, i \in 0..(r - 1), j \in 0..(c - 1)},
                 r, c, k - 1)

MatInputs(r, c, k) == MatGrow({ZeroMat(r, c)}, r, c, k)

\* What a caller can pass as const T& scalar to a matrix operation.
MatScalarArgs ==
    {ValRef(v) : v \in ScalarVals}
        \cup {CellRef("A", i, j) : i \in 0..(Rows - 1), j \in 0..(Cols - 1)}

MatScalarInBounds(s) ==
    MatWeight(mem.A) + MatWeight(mem.B) + (IF s.kind = "val" THEN Abs(s.val) ELSE 0)
        <= MaxWeight


\* The receiver stays, with the other operand, within a weight of MaxWeight.
InBounds(a) == Weight(a) + Weight(mem.y) <= MaxWeight

\* A scalar passed as a value counts towards the weight; an element passed by
\* reference is counted with its vector.
ScalarInBounds(s) ==
    Weight(mem.x) + Weight(mem.y) + (IF s.kind = "val" THEN Abs(s.val) ELSE 0) <= MaxWeight

\* ------------------------------------------------- Vector<T,N>: calls

Returned(name, a, r) ==
    /\ pc' = "returned"
    /\ op' = name
    /\ pre' = mem
    /\ arg' = a
    /\ ret' = r

\* x = Vector{values...}, on the default-constructed x.
Construct(values) ==
    /\ pc = "returned" /\ op = "default"
    /\ Weight(values) + Weight(mem.y) <= MaxWeight
    /\ mem' = [mem EXCEPT !.x = VectorFromList(N, values)]
    /\ shadow' = VectorFromList(N, values)
    /\ Returned("construct", [NoArg EXCEPT !.this = "x", !.list = values], 0)
    /\ UNCHANGED <<T, N, Rows, Cols, faults>>

\* x += other, x -= other, x *= other, x /= other.
CompoundVector(f, other) ==
    /\ pc = "ready"
    /\ f = "divides" => \A i \in 0..(N - 1) : mem[other][i] # 0
    /\ mem' = VecApplySelf(mem, "x", other, f, 0)
    /\ shadow' = VecApply(shadow, mem[other], f)
    /\ InBounds(mem'.x) /\ InBounds(shadow')
    /\ Returned("compound", [NoArg EXCEPT !.this = "x", !.other = other, !.f = f], 0)
    /\ UNCHANGED <<T, N, Rows, Cols, faults>>

\* x += scalar, x -= scalar, x *= scalar, x /= scalar.
CompoundScalar(f, s) ==
    /\ pc = "ready"
    /\ f = "divides" => Deref(mem, s) # 0
    /\ ScalarInBounds(s)
    /\ mem' = VecApplyScalarSelf(mem, "x", s, f, 0)
    /\ shadow' = VecApplyScalar(shadow, Deref(mem, s), f)
    /\ InBounds(mem'.x) /\ InBounds(shadow')
    /\ Returned("compound_scalar", [NoArg EXCEPT !.this = "x", !.scalar = s, !.f = f], 0)
    /\ UNCHANGED <<T, N, Rows, Cols, faults>>

\* x + other, x - other, x * other, x / other.
BinaryVector(f, other) ==
    /\ pc = "ready"
    /\ f = "divides" => \A i \in 0..(N - 1) : mem[other][i] # 0
    /\ Returned("binary", [NoArg EXCEPT !.this = "x", !.other = other, !.f = f],
                VecApply(mem.x, mem[other], f))
    /\ UNCHANGED <<T, N, Rows, Cols, mem, faults, shadow>>

\* x + scalar, x - scalar, x * scalar, x / scalar.
BinaryScalar(f, s) ==
    /\ pc = "ready"
    /\ f = "divides" => Deref(mem, s) # 0
    /\ ScalarInBounds(s)
    /\ Returned("binary_scalar", [NoArg EXCEPT !.this = "x", !.scalar = s, !.f = f],
                VecApplyScalar(mem.x, Deref(mem, s), f))
    /\ UNCHANGED <<T, N, Rows, Cols, mem, faults, shadow>>

Dot(other) ==
    /\ pc = "ready"
    /\ Returned("dot", [NoArg EXCEPT !.this = "x", !.other = other], dot(mem.x, mem[other]))
    /\ UNCHANGED <<T, N, Rows, Cols, mem, faults, shadow>>

Magnitude ==
    /\ pc = "ready"
    /\ Returned("magnitude", [NoArg EXCEPT !.this = "x"], magnitude(mem.x))
    /\ UNCHANGED <<T, N, Rows, Cols, mem, faults, shadow>>

Normalized ==
    /\ pc = "ready"
    /\ Returned("normalized", [NoArg EXCEPT !.this = "x"], normalized(mem.x))
    /\ faults' = faults \cup NormalizedFaults(mem.x)
    /\ UNCHANGED <<T, N, Rows, Cols, mem, shadow>>

\* normalize(): *this = normalized(); return *this.
Normalize ==
    /\ pc = "ready"
    /\ mem' = [mem EXCEPT !.x = normalized(mem.x)]
    /\ shadow' = normalized(shadow)
    /\ Returned("normalize", [NoArg EXCEPT !.this = "x"], 0)
    /\ faults' = faults \cup NormalizedFaults(mem.x)
    /\ UNCHANGED <<T, N, Rows, Cols>>

\* x.cross(y): static_assert(N == 3).
Cross ==
    /\ pc = "ready"
    /\ N = 3
    /\ Returned("cross", [NoArg EXCEPT !.this = "x", !.other = "y"], cross(mem.x, mem.y))
    /\ UNCHANGED <<T, N, Rows, Cols, mem, faults, shadow>>

\* -x
Negation ==
    /\ pc = "ready"
    /\ Returned("negate", [NoArg EXCEPT !.this = "x"], Negate(mem.x))
    /\ UNCHANGED <<T, N, Rows, Cols, mem, faults, shadow>>

\* x == other
Equality(other) ==
    /\ pc = "ready"
    /\ Returned("equals", [NoArg EXCEPT !.this = "x", !.other = other],
                VecEquals(mem.x, mem[other]))
    /\ UNCHANGED <<T, N, Rows, Cols, mem, faults, shadow>>

\* (x f0 other0) f other: an operator applied to the temporary the previous
\* operator returned.
ChainVector(f, other) ==
    /\ pc = "returned" /\ op = "binary"
    /\ f = "divides" => \A i \in 0..(N - 1) : mem[other][i] # 0
    /\ Returned("chain", [arg EXCEPT !.f0 = arg.f, !.other0 = arg.other,
                                     !.f = f, !.other = other],
                VecApply(ret, mem[other], f))
    /\ UNCHANGED <<T, N, Rows, Cols, mem, faults, shadow>>

\* The caller goes on to its next call.
Return ==
    /\ pc = "returned"
    /\ pc' = "ready"
    /\ op' = "none"
    /\ pre' = mem
    /\ arg' = NoArg
    /\ ret' = 0
    /\ faults' = {}
    /\ UNCHANGED <<T, N, Rows, Cols, mem, shadow>>

\* Vector x; Vector y{...}: x default-constructed (data.fill(0)).
Init ==
    /\ T = "int"
    /\ N \in 1..MaxN
    /\ Rows = 0 /\ Cols = 0
    /\ \E v \in VecInputs(N) :
          mem = [x |-> ZeroVec(N), y |-> v, A |-> NoMatrix, B |-> NoMatrix]
    /\ pc = "returned"
    /\ op = "default"
    /\ pre = mem
    /\ arg = NoArg
    /\ ret = 0
    /\ faults = {}
    /\ shadow = ZeroVec(N)

Next ==
    \/ pc = "returned" /\ op = "default" /\ \E values \in ListInputs : Construct(values)
    \/ \E f \in Ops, other \in {"x", "y"} : CompoundVector(f, other)
    \/ \E f \in Ops, s \in VecScalarArgs : CompoundScalar(f, s)
    \/ \E f \in Ops, other \in {"x", "y"} : BinaryVector(f, other)
    \/ \E f \in Ops, s \in VecScalarArgs : BinaryScalar(f, s)
    \/ \E other \in {"x", "y"} : Dot(other)
    \/ Magnitude
    \/ Normalized
    \/ Normalize
    \/ Cross
    \/ Negation
    \/ \E other \in {"x", "y"} : Equality(other)
    \/ Return

Spec == Init /\ [][Next]_vars

\* -------------------------------------------- Vector<T,N>: arithmetic in T

\* The values of type T among the inputs.
Representable(v) == \A i \in DOMAIN v : Rnd(v[i]) = v[i]

InitArith ==
    /\ T \in {"int", "float"}
    /\ N \in 1..MaxN
    /\ Rows = 0 /\ Cols = 0
    /\ \E a \in VecInputs(N), b \in VecInputs(N) :
          /\ Representable(a) /\ Representable(b)
          /\ mem = [x |-> a, y |-> b, A |-> NoMatrix, B |-> NoMatrix]
          /\ shadow = a
    /\ pc = "ready"
    /\ op = "none"
    /\ pre = mem
    /\ arg = NoArg
    /\ ret = 0
    /\ faults = {}

NextArith ==
    \/ \E f \in {"plus", "minus"}, other \in {"x", "y"} : BinaryVector(f, other)
    \/ \E f \in {"plus", "minus"} : ChainVector(f, "y")
    \/ \E other \in {"x", "y"} : Equality(other)
    \/ Negation
    \/ Return

SpecArith == InitArith /\ [][NextArith]_vars

\* -------------------------------------------- Matrix<T,Rows,Cols>: calls

\* A += other, A -= other.
MatCompound(f, other) ==
    /\ pc = "ready"
    /\ mem' = MatApplySelf(mem, "A", other, f, 0)
    /\ MatWeight(mem'.A) <= MaxWeight
    /\ Returned("mat_compound", [NoArg EXCEPT !.this = "A", !.other = other, !.f = f], 0)
    /\ UNCHANGED <<T, N, Rows, Cols, faults, shadow>>

\* A *= other: *this = multiply(other).
MatMultiplyAssign(other, compiler) ==
    /\ pc = "ready"
    /\ Rows = Cols
    /\ IF compiler = "conforming"
       THEN /\ faults' = {"ill_formed"}
            /\ mem' = mem
       ELSE /\ faults' = faults
            /\ mem' = [mem EXCEPT !.A = multiply(mem.A, mem[other])]
            /\ MatWeight(mem'.A) <= MaxWeight
    /\ Returned("mat_multiply_assign", [NoArg EXCEPT !.this = "A", !.other = other], 0)
    /\ UNCHANGED <<T, N, Rows, Cols, shadow>>

\* A += scalar, A -= scalar, A *= scalar, A /= scalar.
MatCompoundScalar(f, s) ==
    /\ pc = "ready"
    /\ f = "divides" => Deref(mem, s) # 0
    /\ MatScalarInBounds(s)
    /\ mem' = MatApplyScalarSelf(mem, "A", s, f, 0)
    /\ MatWeight(mem'.A) <= MaxWeight
    /\ Returned("mat_compound_scalar", [NoArg EXCEPT !.this = "A", !.scalar = s, !.f = f], 0)
    /\ UNCHANGED <<T, N, Rows, Cols, faults, shadow>>

\* A + other, A - other.
MatBinary(f, other) ==
    /\ pc = "ready"
    /\ Returned("mat_binary", [NoArg EXCEPT !.this = "A", !.other = other, !.f = f],
                MatApply(mem.A, mem[other], f))
    /\ UNCHANGED <<T, N, Rows, Cols, mem, faults, shadow>>

\* A * other: multiply(other).
MatMultiply(other, compiler) ==
    /\ pc = "ready"
    /\ Rows = Cols
    /\ IF compiler = "conforming"
       THEN /\ faults' = {"ill_formed"}
            /\ Returned("mat_multiply", [NoArg EXCEPT !.this = "A", !.other = other],
                        NoMatrix)
       ELSE /\ faults' = faults
            /\ Returned("mat_multiply", [NoArg EXCEPT !.this = "A", !.other = other],
                        multiply(mem.A, mem[other]))
    /\ UNCHANGED <<T, N, Rows, Cols, mem, shadow>>

\* A + scalar, A - scalar, A * scalar, A / scalar.
MatBinaryScalar(f, s) ==
    /\ pc = "ready"
    /\ f = "divides" => Deref(mem, s) # 0
    /\ MatScalarInBounds(s)
    /\ Returned("mat_binary_scalar", [NoArg EXCEPT !.this = "A", !.scalar = s, !.f = f],
                MatApplyScalar(mem.A, Deref(mem, s), f))
    /\ UNCHANGED <<T, N, Rows, Cols, mem, faults, shadow>>

\* A.transpose()
Transpose(ub) ==
    /\ pc = "ready"
    /\ Returned("transpose", [NoArg EXCEPT !.this = "A"], transpose(mem.A, ub))
    /\ faults' = TransposeFaults
    /\ UNCHANGED <<T, N, Rows, Cols, mem, shadow>>

\* A.transform(x)
Transform(garbage) ==
    /\ pc = "ready"
    /\ Rows = N
    /\ Returned("transform", [NoArg EXCEPT !.this = "A", !.other = "x"],
                transform(mem.A, mem.x, garbage))
    /\ faults' = TransformFaults
    /\ UNCHANGED <<T, N, Rows, Cols, mem, shadow>>

\* Matrix A{...}, B{...}; Vector x{...} with N == Rows.
InitMatrix ==
    /\ T = "int"
    /\ Rows \in 1..MaxDim
    /\ Cols \in 1..MaxDim
    /\ N = Rows
    /\ \E a \in MatInputs(Rows, Cols, MaxWeight) :
       \E b \in MatInputs(Rows, Cols, MaxWeight - MatWeight(a)) :
       \E v \in Grow({ZeroVec(N)}, N, MaxWeight - MatWeight(a) - MatWeight(b)) :
          mem = [x |-> v, y |-> ZeroVec(N), A |-> a, B |-> b]
    /\ pc = "ready"
    /\ op = "none"
    /\ pre = mem
    /\ arg = NoArg
    /\ ret = 0
    /\ faults = {}
    /\ shadow = << >>

NextMatrix ==
    \/ \E f \in {"plus", "minus"}, other \in {"A", "B"} : MatCompound(f, other)
    \/ \E other \in {"A", "B"}, compiler \in Compilers : MatMultiplyAssign(other, compiler)
    \/ \E f \in Ops, s \in MatScalarArgs : MatCompoundScalar(f, s)
    \/ \E f \in {"plus", "minus"}, other \in {"A", "B"} : MatBinary(f, other)
    \/ \E other \in {"A", "B"}, compiler \in Compilers : MatMultiply(other, compiler)
    \/ \E f \in Ops, s \in MatScalarArgs : MatBinaryScalar(f, s)
    \/ \E ub \in UBOutcomes : Transpose(ub)
    \/ \E garbage \in ScalarVals : Transform(garbage)
    \/ Return

SpecMatrix == InitMatrix /\ [][NextMatrix]_vars

\* ------------------------------------------------------------- claims

UnitVec(k) == [i \in 0..2 |-> IF i = k THEN 1 ELSE 0]

\* C5: after every compound assignment x holds the value the non-mutating
\* operators give, applied in the same order to x's initial value; a compound
\* assignment changes only its receiver, a non-mutating operator nothing.
C5_CompoundMatchesNonMutating ==
    /\ op \in {"compound", "compound_scalar"} => mem.x = shadow /\ mem.y = pre.y
    /\ op \in {"binary", "binary_scalar"} => mem = pre

\* C6: a vector built from a list holds the listed scalars in its first
\* min(k, N) components and zero in the others, scalars beyond the N-th are
\* ignored; a default-constructed vector is zero.
C6_ListConstructorPadsAndTruncates ==
    /\ op = "construct" =>
          /\ DOMAIN mem.x = 0..(N - 1)
          /\ \A i \in 0..(N - 1) :
                mem.x[i] = IF i < Len(arg.list) THEN arg.list[i + 1] ELSE 0
    /\ op = "default" => DOMAIN mem.x = 0..(N - 1) /\ \A i \in 0..(N - 1) : mem.x[i] = 0

C6_Witness ==
    /\ op = "construct"
    /\ Len(arg.list) > N
    /\ arg.list[N + 1] # 0
    /\ mem.x[0] # 0

\* C7: normalized(a) is a / magnitude(a) when magnitude(a) > 0 and a itself
\* otherwise; normalize() sets the receiver to that value; a zero vector stays
\* zero and no division by zero is performed.
C7_NormalizedGuardsZeroMagnitude ==
    LET a == pre.x
        expected == IF magnitude(a) > 0
                    THEN [i \in 0..(N - 1) |-> Quot(a[i], magnitude(a))]
                    ELSE a
    IN  /\ op = "normalized" => ret = expected /\ mem = pre
        /\ op = "normalize" => mem.x = expected
        /\ op \in {"normalized", "normalize"} /\ a = ZeroVec(N) => expected = ZeroVec(N)
        /\ "division_by_zero" \notin faults

C7_Witness ==
    /\ op = "normalized"
    /\ pre.x = ZeroVec(N)
    /\ ret = ZeroVec(N)
    /\ "division_by_zero" \notin faults

\* C9: cross(a, b) == -cross(b, a) for all 3-vectors a and b, and
\* cross({1,0,0}, {0,1,0}) == {0,0,1}.
C9_CrossAntiCommutes ==
    op = "cross" =>
        /\ VecEquals(ret, Negate(cross(pre.y, pre.x)))
        /\ pre.x = UnitVec(0) /\ pre.y = UnitVec(1) => ret = UnitVec(2)

C9_Witness ==
    /\ op = "cross"
    /\ pre.x = UnitVec(0)
    /\ pre.y = UnitVec(1)
    /\ ret = UnitVec(2)

SumsExact == \A i \in 0..(N - 1) : Rnd(mem.x[i] + mem.y[i]) = mem.x[i] + mem.y[i]

RECURSIVE SumOf(_)
SumOf(fn) ==
    IF DOMAIN fn = {} THEN 0
    ELSE LET k == CHOOSE d \in DOMAIN fn : TRUE
         IN  fn[k] + SumOf([d \in DOMAIN fn \ {k} |-> fn[d]])

\* C1: M.transform(v), v of length Rows, is a new vector of length Rows with
\* component i the sum over all column indices j of M[i][j] * v[j], every such
\* v[j] being a component of v; M and v are unchanged.
C1_TransformIsRowSum ==
    op = "transform" =>
        /\ \A j \in 0..(Cols - 1) : j \in DOMAIN pre.x
        /\ faults = {}
        /\ DOMAIN ret = 0..(Rows - 1)
        /\ \A i \in 0..(Rows - 1) :
              ret[i] = SumOf([j \in (0..(Cols - 1)) \cap DOMAIN pre.x
                                 |-> pre.A[i][j] * pre.x[j]])
        /\ mem = pre

\* The row-by-column product of two square matrices.
Product(a, b) ==
    [i \in 0..(Rows - 1) |->
        [j \in 0..(Cols - 1) |-> SumOf([k \in 0..(Cols - 1) |-> a[i][k] * b[k][j]])]]

\* C2: for square A and B, A * B is the row-by-column product, and A *= B sets
\* A to the product of the values A and B held before the call, also when B is A.
C2_MultiplyIsRowByColumn ==
    /\ op = "mat_multiply" => faults = {} /\ ret = Product(pre.A, pre[arg.other])
    /\ op = "mat_multiply_assign" =>
          faults = {} /\ mem.A = Product(pre.A, pre[arg.other])

\* Where the compiler accepts multiply(), it computes the product.
MultiplyIsRowByColumnWhereAccepted ==
    /\ op = "mat_multiply" /\ faults = {} => ret = Product(pre.A, pre[arg.other])
    /\ op = "mat_multiply_assign" /\ faults = {} =>
          mem.A = Product(pre.A, pre[arg.other]) /\ mem.B = pre.B

\* C3: A.transpose() is a Cols x Rows matrix with result[j][i] = A[i][j], for
\* square and non-square A, so that transposing twice gives A back.
C3_TransposeSwapsIndices ==
    op = "transpose" =>
        /\ faults = {}
        /\ DOMAIN ret = 0..(Cols - 1)
        /\ \A j \in 0..(Cols - 1) :
              /\ DOMAIN ret[j] = 0..(Rows - 1)
              /\ \A i \in 0..(Rows - 1) : ret[j][i] = pre.A[i][j]
        /\ Rows = Cols => \A ub \in UBOutcomes : transpose(ret, ub) = pre.A

\* Where the matrix is square, transpose() swaps the indices.
TransposeSwapsIndicesWhereSquare ==
    op = "transpose" /\ Rows = Cols =>
        /\ faults = {}
        /\ \A i \in 0..(Rows - 1), j \in 0..(Cols - 1) : ret[j][i] = pre.A[i][j]
        /\ \A ub \in UBOutcomes : transpose(ret, ub) = pre.A

Combine(f, a, b) ==
    CASE f = "plus" -> a + b
      [] f = "minus" -> a - b
      [] f = "multiplies" -> a * b

Entrywise(f, a, b) ==
    [i \in 0..(Rows - 1) |-> [j \in 0..(Cols - 1) |-> Combine(f, a[i][j], b[i][j])]]

EntrywiseScalar(f, a, v) ==
    [i \in 0..(Rows - 1) |-> [j \in 0..(Cols - 1) |-> Combine(f, a[i][j], v)]]

\* C4: the matrix operators +, -, * and +=, -=, *=, on two matrices of equal
\* shape or on a matrix and a scalar, combine entrywise:
\* result[i][j] = a[i][j] op b[i][j], respectively a[i][j] op scalar.
C4_MatrixOperatorsAreEntrywise ==
    /\ op = "mat_binary" => ret = Entrywise(arg.f, pre.A, pre[arg.other])
    /\ op = "mat_compound" => mem.A = Entrywise(arg.f, pre.A, pre[arg.other])
    /\ op = "mat_multiply" =>
          faults = {} /\ ret = Entrywise("multiplies", pre.A, pre[arg.other])
    /\ op = "mat_multiply_assign" =>
          faults = {} /\ mem.A = Entrywise("multiplies", pre.A, pre[arg.other])
    /\ op = "mat_binary_scalar" /\ arg.f # "divides" =>
          ret = EntrywiseScalar(arg.f, pre.A, Deref(pre, arg.scalar))
    /\ op = "mat_compound_scalar" /\ arg.f # "divides" =>
          mem.A = EntrywiseScalar(arg.f, pre.A, Deref(pre, arg.scalar))

\* The matrix operators that do combine entrywise: + and - on two matrices
\* with their compound forms, and the non-mutating scalar operators.
MatrixOperatorsEntrywiseWhereTheyAre ==
    /\ op = "mat_binary" => ret = Entrywise(arg.f, pre.A, pre[arg.other])
    /\ op = "mat_compound" => mem.A = Entrywise(arg.f, pre.A, pre[arg.other])
    /\ op = "mat_binary_scalar" /\ arg.f # "divides" =>
          ret = EntrywiseScalar(arg.f, pre.A, Deref(pre, arg.scalar))
    /\ op = "mat_compound_scalar" /\ arg.f # "divides" /\ arg.scalar.kind = "val" =>
          mem.A = EntrywiseScalar(arg.f, pre.A, Deref(pre, arg.scalar))

\* C10: every element access of transpose, transform, multiply and the
\* elementwise matrix operators is within the storage of the object it indexes.
C10_AccessesInRange == "out_of_range" \notin faults

====
